---------------------------- MODULE Spec2Model ----------------------------
(***************************************************************************)
(* A model of nx-parallel's chunk-parallel algorithms:                     *)
(*   nx_parallel/algorithms/tournament.py            is_reachable,         *)
(*                                                   is_strongly_connected *)
(*   nx_parallel/algorithms/centrality/betweenness.py                      *)
(*                                                   betweenness_centrality*)
(* A call is a sequential function that dispatches batches of chunk tasks  *)
(* to a joblib worker pool; the tasks of a batch start in submission order *)
(* on at most cpu workers and finish (or fail) in any order.               *)
(***************************************************************************)
EXTENDS Integers, Sequences, FiniteSets, TLC

VARIABLES
    G,              \* the graph: [n, edges, order, directed]
    fn,             \* the entry point called
    args,           \* its arguments: [s, t, k, normalized, endpoints, seed]
    cpu_count,      \* the effective worker count of this call
    rng,            \* state of the process-wide random generator
    pc,             \* position of the caller in the entry point
    node_chunks,    \* chunks of the batch being executed
    status,         \* per chunk task: pending / running / done / failed
    out,            \* the results of the finished tasks, by position
    neighborhoods,  \* is_reachable: result list of the first batch
    nodes,          \* betweenness_centrality: the source sequence
    ret,            \* the value returned, once pc = "done"
    exc,            \* the exception raised, once pc = "failed"
    calls,          \* 1 during the first call, 2 during the repeated call
    prev            \* outcome of the first call, kept for the repeated call

vars == << G, fn, args, cpu_count, rng, pc, node_chunks, status, out,
           neighborhoods, nodes, ret, exc, calls, prev >>

(***************************************************************************)
(* Bounds of the model.                                                    *)
(***************************************************************************)
MaxNodes == 4       \* whole calls: tournaments of up to MaxNodes nodes
MaxSmallNodes == 3  \* every other graph has up to MaxSmallNodes nodes
MaxWorkers == 2     \* effective worker counts are 1..MaxWorkers
MaxSeed == 0        \* the explicit seeds are 0..MaxSeed
MaxItems == 7       \* chunking: sequences of up to MaxItems items

None == 0 - 1       \* Python's None for the optional integer arguments

Max(a, b) == IF a >= b THEN a ELSE b

Range(f) == { f[i] : i \in DOMAIN f }

(***************************************************************************)
(* Graphs.  Nodes are 1..n; edges is a set of ordered pairs; order is the  *)
(* order in which iterating the graph yields its nodes.                    *)
(***************************************************************************)
NodeSet(g) == 1 .. g.n

\* G_adj[v].keys(): the out-neighbours of v
G_adj(g, v) == { w \in NodeSet(g) : <<v, w>> \in g.edges }

Pairs(n) == { p \in (1 .. n) \X (1 .. n) : p[1] < p[2] }

\* every tournament on 1..n: one direction chosen for each pair of nodes
TournamentEdges(n) ==
    { { IF d[p] THEN p ELSE <<p[2], p[1]>> : p \in Pairs(n) } :
        d \in [Pairs(n) -> BOOLEAN] }

\* the iteration orders tried: ascending, and for the graphs of up to
\* MaxSmallNodes nodes also descending and rotated by one.  Relabelling the
\* nodes maps any order of a graph to the ascending order of an isomorphic
\* graph, and every labelled graph is enumerated.
Orders(n) ==
    IF n <= MaxSmallNodes
    THEN { [i \in 1 .. n |-> i], [i \in 1 .. n |-> n + 1 - i],
           [i \in 1 .. n |-> (i % n) + 1] }
    ELSE { [i \in 1 .. n |-> i] }

TournamentsOn(n) ==
    { [n |-> n, edges |-> e, order |-> o, directed |-> TRUE] :
        e \in TournamentEdges(n), o \in Orders(n) }

Tournaments(lo, hi) == UNION { TournamentsOn(n) : n \in lo .. hi }

\* the transitive tournament on 1..n: every node beats the larger ones
Transitive(n) ==
    [n |-> n, edges |-> Pairs(n), order |-> [i \in 1 .. n |-> i],
     directed |-> TRUE]

\* every undirected graph on 1..n: both directions of each chosen pair
UndirectedEdges(n) ==
    { UNION { { p, <<p[2], p[1]>> } : p \in E } : E \in SUBSET Pairs(n) }

UndirectedOn(n) ==
    { [n |-> n, edges |-> e, order |-> [i \in 1 .. n |-> i], directed |-> FALSE] :
        e \in UndirectedEdges(n) }

Undirected(lo, hi) == UNION { UndirectedOn(n) : n \in lo .. hi }

\* G has a directed path from a to b (a reaches itself)
RECURSIVE ReachSet(_, _)
ReachSet(g, R) ==
    LET R2 == R \cup UNION { G_adj(g, v) : v \in R }
    IN  IF R2 = R THEN R ELSE ReachSet(g, R2)

HasPath(g, a, b) == b \in ReachSet(g, {a})

(***************************************************************************)
(* nxp.chunks(iterable, n): tuples of n successive items of the iterable,  *)
(* the last one shorter, until the iterable is exhausted.  The iterable is *)
(* consumed through an iterator: over a materialized sequence, or over     *)
(* the generator of line 78 that walks a list of lists.                    *)
(***************************************************************************)
IterList(seq) == [data |-> <<seq>>, i |-> 1, j |-> 1]

\* nbrhoods = (nhood for nh_chunk in neighborhoods for nhood in nh_chunk)
FlatGenerator(lists) == [data |-> lists, i |-> 1, j |-> 1]

\* skip the exhausted inner lists
RECURSIVE Settle(_)
Settle(it) ==
    IF it.i > Len(it.data) THEN it
    ELSE IF it.j > Len(it.data[it.i])
         THEN Settle([it EXCEPT !.i = it.i + 1, !.j = 1])
         ELSE it

HasNext(it) == Settle(it).i <= Len(it.data)
NextItem(it) == LET c == Settle(it) IN c.data[c.i][c.j]
Advance(it) == LET c == Settle(it) IN [c EXCEPT !.j = c.j + 1]

\* tuple(itertools.islice(it, n)): <<the items taken, the iterator after>>
RECURSIVE Islice(_, _)
Islice(it, c) ==
    IF c <= 0 \/ ~HasNext(it) THEN << <<>>, it >>
    ELSE LET rest == Islice(Advance(it), c - 1)
         IN  << <<NextItem(it)>> \o rest[1], rest[2] >>

RECURSIVE chunks(_, _)
chunks(it, c) ==
    LET x == Islice(it, c)
    IN  IF x[1] = <<>> THEN <<>> ELSE <<x[1]>> \o chunks(x[2], c)

\* a faulty variant of num_in_chunk: the floor of 1 is forgotten
num_in_chunk_unfloored(len, cpus) == len \div cpus

\* a faulty variant of num_in_chunk: the chunk size is rounded up, so that
\* no more chunks than workers are made
num_in_chunk_ceiling(len, cpus) == Max((len + cpus - 1) \div cpus, 1)

\* num_in_chunk = max(len(...) // cpu_count, 1)
num_in_chunk(len, cpus) == Max(len \div cpus, 1)

RECURSIVE Flatten(_)
Flatten(lists) ==
    IF lists = <<>> THEN <<>> ELSE Head(lists) \o Flatten(Tail(lists))

(***************************************************************************)
(* tournament.py: the task functions of is_reachable.                      *)
(***************************************************************************)
\* a variant of two_nbrhood that counts v as part of its own neighborhood
two_nbrhood_with_self(g, v) ==
    LET v_nbrs == G_adj(g, v)
    IN  {v} \cup v_nbrs \cup UNION { G_adj(g, nbr) : nbr \in v_nbrs }

two_nbrhood(g, v) ==
    LET v_nbrs == G_adj(g, v)
    IN  v_nbrs \cup UNION { G_adj(g, nbr) : nbr \in v_nbrs }

two_nbrhood_subset(g, chunk) ==
    [i \in 1 .. Len(chunk) |-> two_nbrhood(g, chunk[i])]

\* a faulty variant of is_closed: the adjacency test is turned around
is_closed_reversed(g, S) ==
    \A u \in NodeSet(g) \ S : \A v \in S : u \in G_adj(g, v)

is_closed(g, S) ==
    \A u \in NodeSet(g) \ S : \A v \in S : v \in G_adj(g, u)

\* a faulty variant of Blocks: the closure test is left out
Blocks_unclosed(g, s, t, S) == s \in S /\ t \notin S

Blocks(g, s, t, S) == s \in S /\ t \notin S /\ is_closed(g, S)

\* a faulty variant of check_closure_subset: only the first neighborhood
\* of the chunk is tested
check_closure_first(g, s, t, chunk) ==
    chunk = <<>> \/ ~Blocks(g, s, t, chunk[1])

check_closure_subset(g, s, t, chunk) ==
    \A i \in 1 .. Len(chunk) : ~Blocks(g, s, t, chunk[i])

\* Parallel(...)(f(chunk) for chunk in cs) when no task fails
ParallelMap(F(_), cs) == [i \in 1 .. Len(cs) |-> F(cs[i])]

all(results) == \A i \in 1 .. Len(results) : results[i]

\* is_reachable(G, s, t) as a function, as is_strongly_connected calls it
is_reachable_value(g, s, t, cpus) ==
    LET size == num_in_chunk(g.n, cpus)
        F1(chunk) == two_nbrhood_subset(g, chunk)
        nbhs == ParallelMap(F1, chunks(IterList(g.order), size))
        F2(chunk) == check_closure_subset(g, s, t, chunk)
        results == ParallelMap(F2, chunks(FlatGenerator(nbhs), size))
    IN  all(results)

\* a faulty variant of is_reachable_subset: only the first target of the
\* chunk is checked
is_reachable_subset_first(g, chunk, cpus) ==
    chunk = <<>> \/ \A j \in 1 .. g.n :
        is_reachable_value(g, g.order[j], chunk[1], cpus)

is_reachable_subset(g, chunk, cpus) ==
    \A i \in 1 .. Len(chunk) : \A j \in 1 .. g.n :
        is_reachable_value(g, g.order[j], chunk[i], cpus)

(***************************************************************************)
(* Exact arithmetic: a score is a fraction <<numerator, denominator>> in   *)
(* lowest terms with a positive denominator.                               *)
(***************************************************************************)
RECURSIVE GCD(_, _)
GCD(a, b) == IF b = 0 THEN a ELSE GCD(b, a % b)

Abs(a) == IF a < 0 THEN 0 - a ELSE a

Frac(a, b) ==
    LET g == GCD(Abs(a), Abs(b))
        sgn == IF b < 0 THEN 0 - 1 ELSE 1
    IN  << (sgn * a) \div g, (sgn * b) \div g >>

Int2Q(a) == << a, 1 >>
QAdd(x, y) == Frac(x[1] * y[2] + y[1] * x[2], x[2] * y[2])
QMul(x, y) == Frac(x[1] * y[1], x[2] * y[2])
QDiv(x, y) == Frac(x[1] * y[2], x[2] * y[1])
QLeq(x, y) == x[1] * y[2] <= y[1] * x[2]

(***************************************************************************)
(* networkx's single-source step, as betweenness.py imports it:            *)
(* _single_source_shortest_path_basic (breadth-first search recording the  *)
(* visit order S, the predecessors P and the path counts sigma).           *)
(***************************************************************************)
\* the items of a set of nodes in ascending order
RECURSIVE Ascending(_)
Ascending(S) ==
    IF S = {} THEN <<>>
    ELSE LET m == CHOOSE x \in S : \A y \in S : x <= y
         IN  <<m>> \o Ascending(S \ {m})

\* for w in G[v]: the scan of the neighbours ws of the dequeued node v
RECURSIVE ScanNeighbours(_, _, _)
ScanNeighbours(b, v, ws) ==
    IF ws = <<>> THEN b
    ELSE LET w == Head(ws)
             seen == b.D[w] # None
             b1 == IF seen THEN b
                   ELSE [b EXCEPT !.Q = Append(b.Q, w), !.D[w] = b.D[v] + 1]
             b2 == IF b1.D[w] = b1.D[v] + 1
                   THEN [b1 EXCEPT !.sigma[w] = b1.sigma[w] + b1.sigma[v],
                                   !.P[w] = Append(b1.P[w], v)]
                   ELSE b1
         IN  ScanNeighbours(b2, v, Tail(ws))

RECURSIVE BFSLoop(_, _)
BFSLoop(g, b) ==
    IF b.Q = <<>> THEN b
    ELSE LET v == Head(b.Q)
             b1 == [b EXCEPT !.Q = Tail(b.Q), !.S = Append(b.S, v)]
         IN  BFSLoop(g, ScanNeighbours(b1, v, Ascending(G_adj(g, v))))

_single_source_shortest_path_basic(g, s) ==
    BFSLoop(g, [S |-> <<>>,
                P |-> [v \in NodeSet(g) |-> <<>>],
                sigma |-> [v \in NodeSet(g) |-> IF v = s THEN 1 ELSE 0],
                D |-> [v \in NodeSet(g) |-> IF v = s THEN 0 ELSE None],
                Q |-> <<s>>])

(***************************************************************************)
(* networkx's accumulation step: _accumulate_basic and                     *)
(* _accumulate_endpoints walk S backwards and add each node's dependency   *)
(* delta to the running betweenness map.                                   *)
(***************************************************************************)
\* while S: w = S.pop(); ...   (a is [bet, delta]; i is the length left of S)
RECURSIVE AccumulateLoop(_, _, _, _, _)
AccumulateLoop(a, b, s, i, extra) ==
    IF i = 0 THEN a
    ELSE LET w == b.S[i]
             coeff == QDiv(QAdd(Int2Q(1), a.delta[w]), Int2Q(b.sigma[w]))
             preds == Range(b.P[w])
             delta1 == [v \in DOMAIN a.delta |->
                          IF v \in preds
                          THEN QAdd(a.delta[v], QMul(Int2Q(b.sigma[v]), coeff))
                          ELSE a.delta[v]]
             bet1 == IF w # s
                     THEN [a.bet EXCEPT ![w] =
                             QAdd(a.bet[w], QAdd(delta1[w], Int2Q(extra)))]
                     ELSE a.bet
         IN  AccumulateLoop([bet |-> bet1, delta |-> delta1], b, s, i - 1, extra)

_accumulate_basic(betweenness, b, s) ==
    AccumulateLoop([bet |-> betweenness,
                    delta |-> [v \in DOMAIN betweenness |-> Int2Q(0)]],
                   b, s, Len(b.S), 0).bet

_accumulate_endpoints(betweenness, b, s) ==
    AccumulateLoop([bet |-> [betweenness EXCEPT ![s] =
                               QAdd(betweenness[s], Int2Q(Len(b.S) - 1))],
                    delta |-> [v \in DOMAIN betweenness |-> Int2Q(0)]],
                   b, s, Len(b.S), 1).bet

(***************************************************************************)
(* betweenness.py: the chunk task, the reduction and the rescaling.        *)
(* weight is None throughout: the breadth-first variant is the one         *)
(* modelled.                                                               *)
(***************************************************************************)
\* for s in nodes: ... over the first i sources of the chunk
RECURSIVE SubsetLoop(_, _, _, _)
SubsetLoop(g, srcs, endpoints, i) ==
    IF i = 0 THEN [v \in NodeSet(g) |-> Int2Q(0)]
    ELSE LET betweenness == SubsetLoop(g, srcs, endpoints, i - 1)
             b == _single_source_shortest_path_basic(g, srcs[i])
         IN  IF endpoints
             THEN _accumulate_endpoints(betweenness, b, srcs[i])
             ELSE _accumulate_basic(betweenness, b, srcs[i])

\* a faulty variant of the chunk task: the map only has the chunk's sources
\* as keys
_betweenness_centrality_node_subset_sources_only(g, srcs, endpoints) ==
    LET bt == SubsetLoop(g, srcs, endpoints, Len(srcs))
    IN  [v \in Range(srcs) |-> bt[v]]

_betweenness_centrality_node_subset(g, srcs, endpoints) ==
    SubsetLoop(g, srcs, endpoints, Len(srcs))

\* bt_c = bt_cs[0]; for bt in bt_cs[1:]: for n in bt: bt_c[n] += bt[n]
RECURSIVE ReduceLoop(_, _)
ReduceLoop(bt_cs, i) ==
    IF i = 1 THEN bt_cs[1]
    ELSE LET bt_c == ReduceLoop(bt_cs, i - 1)
         IN  [v \in DOMAIN bt_c |->
                IF v \in DOMAIN bt_cs[i] THEN QAdd(bt_c[v], bt_cs[i][v])
                ELSE bt_c[v]]

\* faulty variants of Reduce: the loop over bt_cs[1:] is missing, or it
\* stops one partial map early
Reduce_first_only(bt_cs) == bt_cs[1]
Reduce_dropping_last(bt_cs) == ReduceLoop(bt_cs, Max(Len(bt_cs) - 1, 1))

Reduce(bt_cs) == ReduceLoop(bt_cs, Len(bt_cs))

\* networkx's _rescale(betweenness, n, normalized, directed, k, endpoints);
\* a scale of <<0, 1>> stands for "scale is None"
\* a faulty variant of Scale: the normalized factor of a graph in which
\* each pair is counted once
Scale_pairs_once(n, normalized, directed, endpoints) ==
    IF normalized
    THEN IF endpoints
         THEN IF n < 2 THEN Int2Q(0) ELSE Frac(2, n * (n - 1))
         ELSE IF n <= 2 THEN Int2Q(0) ELSE Frac(2, (n - 1) * (n - 2))
    ELSE IF ~directed THEN Frac(1, 2) ELSE Int2Q(0)

Scale(n, normalized, directed, endpoints) ==
    IF normalized
    THEN IF endpoints
         THEN IF n < 2 THEN Int2Q(0) ELSE Frac(1, n * (n - 1))
         ELSE IF n <= 2 THEN Int2Q(0) ELSE Frac(1, (n - 1) * (n - 2))
    ELSE IF ~directed THEN Frac(1, 2) ELSE Int2Q(0)

_rescale(betweenness, n, normalized, directed, k, endpoints) ==
    LET scale == Scale(n, normalized, directed, endpoints)
        scale_k == IF k # None THEN QDiv(QMul(scale, Int2Q(n)), Int2Q(k))
                   ELSE scale
    IN  IF scale = Int2Q(0) THEN betweenness
        ELSE [v \in DOMAIN betweenness |-> QMul(betweenness[v], scale_k)]

(***************************************************************************)
(* Sampling: seed.sample(list(G.nodes), k).  py_random_state(5) turns the  *)
(* seed argument into a generator: a fresh random.Random(seed) for an      *)
(* integer, the process-wide generator of the random module for None.      *)
(* A generator is modelled by its state, a number below RngPeriod;         *)
(* drawing advances it.                                                    *)
(***************************************************************************)
RngPeriod == 3      \* bound: number of generator states

\* random.Random(seed): the state a fresh generator starts in
SeedState(seed) == seed % RngPeriod

\* py_random_state: the state of the generator the call samples with
SamplerState(seed, global) == IF seed = None THEN global ELSE SeedState(seed)

\* _randbelow(m) and the state after the draw
randbelow(r, m) == r % m
AfterDraw(r) == (r + 1) % RngPeriod

\* random.sample's pool loop, draws i+1..k:  j = randbelow(n - i);
\* result[i] = pool[j]; pool[j] = pool[n - i - 1]
RECURSIVE SampleLoop(_, _, _, _)
SampleLoop(pool, r, i, k) ==
    IF i = k THEN [result |-> <<>>, rng |-> r]
    ELSE LET m == Len(pool) - i
             j == randbelow(r, m) + 1
             rest == SampleLoop([pool EXCEPT ![j] = pool[m]], AfterDraw(r),
                                i + 1, k)
         IN  [result |-> <<pool[j]>> \o rest.result, rng |-> rest.rng]

\* random.sample raises ValueError unless 0 <= k <= len(population)
SampleRaises(population, k) == ~(0 <= k /\ k <= Len(population))

sample(population, k, r) == SampleLoop(population, r, 0, k)

(***************************************************************************)
(* The worker pool: Parallel(n_jobs=cpu_count)(delayed(f)(chunk) ...).     *)
(* Tasks are handed to the workers in submission order, at most cpu_count  *)
(* run at a time, and each ends with its result or with an exception.      *)
(***************************************************************************)
Batches == {"nbrs", "closure", "targets", "sources"}

Tasks == 1 .. Len(node_chunks)

Running == { i \in Tasks : status[i] = "running" }

\* a faulty variant of AllDone: a failed task counts as finished and its
\* result is dropped
AllSettled == \A i \in Tasks : status[i] \in {"done", "failed"}

\* a faulty variant of AllDone: the caller goes on as soon as one task has
\* finished
AllDone_first_result ==
    Tasks = {} \/ \E i \in Tasks : status[i] = "done"

AllDone == \A i \in Tasks : status[i] = "done"

SomeFailed == \E i \in Tasks : status[i] = "failed"

\* the result of the task of chunk i of the current batch
TaskResult(i) ==
    CASE pc = "nbrs" -> two_nbrhood_subset(G, node_chunks[i])
      [] pc = "closure" -> check_closure_subset(G, args.s, args.t, node_chunks[i])
      [] pc = "targets" -> is_reachable_subset(G, node_chunks[i], cpu_count)
      [] pc = "sources" ->
            _betweenness_centrality_node_subset(G, node_chunks[i], args.endpoints)

\* a faulty variant of ResultSlot: results are appended as tasks finish
ResultSlot_as_finished(i, results) == Cardinality(DOMAIN results) + 1

\* the position of the result list that receives the result of task i:
\* Parallel keeps the results in submission order
ResultSlot(i, results) == i

\* the list Parallel returns to the caller: the results it holds, by position
Returned ==
    LET slots == Ascending(DOMAIN out)
    IN  [i \in 1 .. Len(slots) |-> out[slots[i]]]

Dispatch(cs) ==
    /\ node_chunks' = cs
    /\ status' = [i \in 1 .. Len(cs) |-> "pending"]
    /\ out' = <<>>

TaskStart(i) ==
    /\ pc \in Batches
    /\ ~SomeFailed
    /\ status[i] = "pending"
    /\ \A j \in 1 .. i - 1 : status[j] # "pending"
    /\ Cardinality(Running) < cpu_count
    /\ status' = [status EXCEPT ![i] = "running"]
    /\ UNCHANGED << G, fn, args, cpu_count, rng, pc, node_chunks, out, neighborhoods, nodes, ret, exc, calls, prev >>

TaskFinish(i) ==
    /\ pc \in Batches
    /\ status[i] = "running"
    /\ status' = [status EXCEPT ![i] = "done"]
    /\ out' = out @@ (ResultSlot(i, out) :> TaskResult(i))
    /\ UNCHANGED << G, fn, args, cpu_count, rng, pc, node_chunks,
                    neighborhoods, nodes, ret, exc, calls, prev >>

TaskFail(i) ==
    /\ pc \in Batches
    /\ status[i] = "running"
    /\ status' = [status EXCEPT ![i] = "failed"]
    /\ UNCHANGED << G, fn, args, cpu_count, rng, pc, node_chunks, out, neighborhoods, nodes, ret, exc, calls, prev >>

\* what the caller does with a batch in which a task failed: Parallel
\* re-raises the task's exception, and no entry point catches it
OnFailure(p) == [pc |-> "failed", exc |-> "TaskError"]

Raise ==
    /\ pc \in Batches
    /\ SomeFailed
    /\ pc' = OnFailure(pc).pc
    /\ exc' = OnFailure(pc).exc
    /\ UNCHANGED << G, fn, args, cpu_count, rng, node_chunks, status,
                    out, neighborhoods, nodes, ret, calls, prev >>

(***************************************************************************)
(* is_reachable(G, s, t), task by task                                     *)
(***************************************************************************)
ReachDispatchNbrs ==
    /\ pc = "call"
    /\ fn = "is_reachable"
    /\ Dispatch(chunks(IterList(G.order), num_in_chunk(G.n, cpu_count)))
    /\ pc' = "nbrs"
    /\ UNCHANGED << G, fn, args, cpu_count, rng, neighborhoods, nodes, ret,
                    exc, calls, prev >>

ReachDispatchClosure ==
    /\ pc = "nbrs"
    /\ AllDone
    /\ neighborhoods' = Returned
    /\ Dispatch(chunks(FlatGenerator(Returned), num_in_chunk(G.n, cpu_count)))
    /\ pc' = "closure"
    /\ UNCHANGED << G, fn, args, cpu_count, rng, nodes, ret, exc, calls, prev >>

ReachReturn ==
    /\ pc = "closure"
    /\ AllDone
    /\ ret' = all(Returned)
    /\ pc' = "done"
    /\ UNCHANGED << G, fn, args, cpu_count, rng, node_chunks, status,
                    out, neighborhoods, nodes, exc, calls, prev >>

(***************************************************************************)
(* is_strongly_connected(G), task by task                                  *)
(***************************************************************************)
SCDispatch ==
    /\ pc = "call"
    /\ fn = "is_strongly_connected"
    /\ Dispatch(chunks(IterList(G.order), num_in_chunk(G.n, cpu_count)))
    /\ pc' = "targets"
    /\ UNCHANGED << G, fn, args, cpu_count, rng, neighborhoods, nodes, ret,
                    exc, calls, prev >>

SCReturn ==
    /\ pc = "targets"
    /\ AllDone
    /\ ret' = all(Returned)
    /\ pc' = "done"
    /\ UNCHANGED << G, fn, args, cpu_count, rng, node_chunks, status,
                    out, neighborhoods, nodes, exc, calls, prev >>

(***************************************************************************)
(* betweenness_centrality(G, k, normalized, weight=None, endpoints, seed,  *)
(* n_jobs), task by task                                                   *)
(***************************************************************************)
\* lines 81-84: the source sequence and the state the process-wide
\* generator is left in; raises when random.sample does
\* a faulty variant of Sources: the seed is ignored and every call samples
\* with the process-wide generator
Sources_unseeded(g, k, seed, global) ==
    IF k = None THEN [raises |-> FALSE, nodes |-> g.order, rng |-> global]
    ELSE IF SampleRaises(g.order, k)
         THEN [raises |-> TRUE, nodes |-> <<>>, rng |-> global]
         ELSE LET x == sample(g.order, k, global)
              IN  [raises |-> FALSE, nodes |-> x.result, rng |-> x.rng]

\* a faulty variant of Sources: a k above the number of nodes is clamped
Sources_clamped(g, k, seed, global) ==
    IF k = None THEN [raises |-> FALSE, nodes |-> g.order, rng |-> global]
    ELSE IF k < 0
         THEN [raises |-> TRUE, nodes |-> <<>>, rng |-> global]
         ELSE LET kk == IF k > Len(g.order) THEN Len(g.order) ELSE k
                  x == sample(g.order, kk, SamplerState(seed, global))
              IN  [raises |-> FALSE, nodes |-> x.result,
                   rng |-> IF seed = None THEN x.rng ELSE global]

Sources(g, k, seed, global) ==
    IF k = None THEN [raises |-> FALSE, nodes |-> g.order, rng |-> global]
    ELSE IF SampleRaises(g.order, k)
         THEN [raises |-> TRUE, nodes |-> <<>>, rng |-> global]
         ELSE LET x == sample(g.order, k, SamplerState(seed, global))
              IN  [raises |-> FALSE, nodes |-> x.result,
                   rng |-> IF seed = None THEN x.rng ELSE global]

BCDispatch ==
    /\ pc = "call"
    /\ fn = "betweenness_centrality"
    /\ LET src == Sources(G, args.k, args.seed, rng)
       IN  /\ rng' = src.rng
           /\ IF src.raises
              THEN /\ pc' = "failed"
                   /\ exc' = "ValueError"
                   /\ UNCHANGED << node_chunks, status, out, nodes >>
              ELSE /\ nodes' = src.nodes
                   /\ Dispatch(chunks(IterList(src.nodes),
                                      num_in_chunk(Len(src.nodes), cpu_count)))
                   /\ pc' = "sources"
                   /\ exc' = exc
    /\ UNCHANGED << G, fn, args, cpu_count, neighborhoods, ret, calls, prev >>

\* a faulty variant of BCReduce: an empty result list gives an empty map
BCReduce_returning_empty ==
    /\ pc = "sources"
    /\ AllDone
    /\ pc' = "done"
    /\ exc' = exc
    /\ ret' = IF Returned = <<>> THEN <<>>
              ELSE _rescale(Reduce(Returned), G.n, args.normalized,
                            G.directed, args.k, args.endpoints)
    /\ UNCHANGED << G, fn, args, cpu_count, rng, node_chunks, status,
                    out, neighborhoods, nodes, calls, prev >>

\* lines 96-110: bt_cs[0] raises IndexError on an empty result list
BCReduce ==
    /\ pc = "sources"
    /\ AllDone
    /\ IF Returned = <<>>
       THEN /\ pc' = "failed"
            /\ exc' = "IndexError"
            /\ ret' = ret
       ELSE /\ pc' = "done"
            /\ exc' = exc
            /\ ret' = _rescale(Reduce(Returned), G.n, args.normalized,
                               G.directed, args.k, args.endpoints)
    /\ UNCHANGED << G, fn, args, cpu_count, rng, node_chunks, status,
                    out, neighborhoods, nodes, calls, prev >>

(***************************************************************************)
(* The entry points as whole calls: what a call returns when no task       *)
(* fails, computed through the same chunks, task functions and reductions. *)
(***************************************************************************)
is_strongly_connected_value(g, cpus) ==
    LET F(chunk) == is_reachable_subset(g, chunk, cpus)
    IN  all(ParallelMap(F, chunks(IterList(g.order), num_in_chunk(g.n, cpus))))

betweenness_centrality_value(g, a, cpus, global) ==
    LET src == Sources(g, a.k, a.seed, global)
        F(chunk) == _betweenness_centrality_node_subset(g, chunk, a.endpoints)
        bt_cs == ParallelMap(F, chunks(IterList(src.nodes),
                                       num_in_chunk(Len(src.nodes), cpus)))
    IN  IF src.raises
        THEN [pc |-> "failed", exc |-> "ValueError", ret |-> <<>>,
              nodes |-> <<>>, rng |-> src.rng]
        ELSE IF bt_cs = <<>>
        THEN [pc |-> "failed", exc |-> "IndexError", ret |-> <<>>,
              nodes |-> src.nodes, rng |-> src.rng]
        ELSE [pc |-> "done", exc |-> "",
              ret |-> _rescale(Reduce(bt_cs), g.n, a.normalized, g.directed,
                               a.k, a.endpoints),
              nodes |-> src.nodes, rng |-> src.rng]

CallReach ==
    /\ pc = "call"
    /\ fn = "is_reachable"
    /\ ret' = is_reachable_value(G, args.s, args.t, cpu_count)
    /\ pc' = "done"
    /\ UNCHANGED << G, fn, args, cpu_count, rng, node_chunks, status, out,
                    neighborhoods, nodes, exc, calls, prev >>

CallSC ==
    /\ pc = "call"
    /\ fn = "is_strongly_connected"
    /\ ret' = is_strongly_connected_value(G, cpu_count)
    /\ pc' = "done"
    /\ UNCHANGED << G, fn, args, cpu_count, rng, node_chunks, status, out,
                    neighborhoods, nodes, exc, calls, prev >>

CallBC ==
    /\ pc = "call"
    /\ fn = "betweenness_centrality"
    /\ \E r \in {betweenness_centrality_value(G, args, cpu_count, rng)} :
           /\ pc' = r.pc
           /\ exc' = r.exc
           /\ ret' = r.ret
           /\ nodes' = r.nodes
           /\ rng' = r.rng
    /\ UNCHANGED << G, fn, args, cpu_count, node_chunks, status, out,
                    neighborhoods, calls, prev >>

\* the caller repeats the call on the unmodified graph with the same
\* arguments, on any number of workers
CallAgain ==
    /\ pc \in {"done", "failed"}
    /\ calls = 1
    /\ calls' = 2
    /\ prev' = [pc |-> pc, exc |-> exc, ret |-> ret, nodes |-> nodes,
                cpu_count |-> cpu_count]
    /\ \E w \in 1 .. MaxWorkers : cpu_count' = w
    /\ pc' = "call"
    /\ nodes' = <<>>
    /\ ret' = <<>>
    /\ exc' = ""
    /\ UNCHANGED << G, fn, args, rng, node_chunks, status, out, neighborhoods >>

(***************************************************************************)
(* Initial states: the call about to be made.                              *)
(***************************************************************************)
NoArgs == [s |-> 0, t |-> 0, k |-> None, normalized |-> TRUE,
           endpoints |-> FALSE, seed |-> None]

ReachArgs(g) ==
    { [NoArgs EXCEPT !.s = a, !.t = b] : a \in NodeSet(g), b \in NodeSet(g) }

BCArgs(g, norms, ends) ==
    { [NoArgs EXCEPT !.k = k, !.seed = sd, !.normalized = nm, !.endpoints = ep] :
        k \in {None} \cup (0 .. g.n + 1), sd \in {None} \cup (0 .. MaxSeed),
        nm \in norms, ep \in ends }

Fresh ==
    /\ pc = "call"
    /\ node_chunks = <<>>
    /\ status = <<>>
    /\ out = <<>>
    /\ neighborhoods = <<>>
    /\ nodes = <<>>
    /\ ret = <<>>
    /\ exc = ""
    /\ calls = 1
    /\ prev = <<>>

\* the process-wide generator is in any state when the call samples with it
RngStates(a) ==
    IF a.k # None /\ a.seed = None THEN 0 .. RngPeriod - 1 ELSE {0}

InitTournament(maxn) ==
    /\ fn \in {"is_reachable", "is_strongly_connected"}
    /\ G \in Tournaments(IF fn = "is_reachable" THEN 1 ELSE 0, maxn)
    /\ args \in IF fn = "is_reachable" THEN ReachArgs(G) ELSE {NoArgs}
    /\ cpu_count \in 1 .. MaxWorkers
    /\ rng = 0
    /\ Fresh

\* betweenness_centrality is called on undirected graphs
InitBetweenness(norms, ends) ==
    /\ fn = "betweenness_centrality"
    /\ G \in Undirected(0, MaxSmallNodes)
    /\ args \in BCArgs(G, norms, ends)
    /\ cpu_count \in 1 .. MaxWorkers
    /\ rng \in RngStates(args)
    /\ Fresh

(***************************************************************************)
(* SpecPool: the tournament entry points, task by task.                    *)
(***************************************************************************)
InitPool == InitTournament(MaxSmallNodes)

NextPool ==
    \/ ReachDispatchNbrs
    \/ ReachDispatchClosure
    \/ ReachReturn
    \/ SCDispatch
    \/ SCReturn
    \/ \E i \in Tasks : TaskStart(i)
    \/ \E i \in Tasks : TaskFinish(i)
    \/ \E i \in Tasks : TaskFail(i)
    \/ Raise

SpecPool == InitPool /\ [][NextPool]_vars

(***************************************************************************)
(* SpecChunks: the tournament entry points, task by task, on the           *)
(* transitive tournaments of up to MaxItems nodes: longer sequences to     *)
(* chunk, with and without a remainder.                                    *)
(***************************************************************************)
InitChunks ==
    /\ fn \in {"is_reachable", "is_strongly_connected"}
    /\ G \in { Transitive(n) : n \in 1 .. MaxItems }
    /\ args \in IF fn = "is_reachable"
                THEN { [NoArgs EXCEPT !.s = 1, !.t = G.n],
                       [NoArgs EXCEPT !.s = G.n, !.t = 1] }
                ELSE {NoArgs}
    /\ cpu_count \in 1 .. MaxWorkers + 1
    /\ rng = 0
    /\ Fresh

SpecChunks == InitChunks /\ [][NextPool]_vars

(***************************************************************************)
(* SpecPoolBC: betweenness_centrality, task by task, with normalized=True. *)
(***************************************************************************)
InitPoolBC == InitBetweenness({TRUE}, BOOLEAN)

NextPoolBC ==
    \/ BCDispatch
    \/ BCReduce
    \/ \E i \in Tasks : TaskStart(i)
    \/ \E i \in Tasks : TaskFinish(i)
    \/ \E i \in Tasks : TaskFail(i)
    \/ Raise

SpecPoolBC == InitPoolBC /\ [][NextPoolBC]_vars

(***************************************************************************)
(* SpecPoolAll: every entry point, task by task; the tournaments are       *)
(* iterated in ascending order only.                                       *)
(***************************************************************************)
InitPoolAll ==
    \/ InitPool /\ G.order = [i \in 1 .. G.n |-> i]
    \/ InitPoolBC

NextPoolAll ==
    \/ ReachDispatchNbrs
    \/ ReachDispatchClosure
    \/ ReachReturn
    \/ SCDispatch
    \/ SCReturn
    \/ BCDispatch
    \/ BCReduce
    \/ \E i \in Tasks : TaskStart(i)
    \/ \E i \in Tasks : TaskFinish(i)
    \/ \E i \in Tasks : TaskFail(i)
    \/ Raise

SpecPoolAll == InitPoolAll /\ [][NextPoolAll]_vars

(***************************************************************************)
(* SpecCall: the tournament entry points as whole calls.                   *)
(***************************************************************************)
InitCall == InitTournament(MaxNodes)

NextCall == CallReach \/ CallSC

SpecCall == InitCall /\ [][NextCall]_vars

(***************************************************************************)
(* SpecRepeat: a whole call, then the same call once more; betweenness     *)
(* with endpoints=False.                                                   *)
(***************************************************************************)
InitRepeat == InitTournament(MaxSmallNodes) \/ InitBetweenness(BOOLEAN, {FALSE})

NextRepeat == CallReach \/ CallSC \/ CallBC \/ CallAgain

SpecRepeat == InitRepeat /\ [][NextRepeat]_vars

(***************************************************************************)
(* Properties.                                                             *)
(***************************************************************************)
Returns(f) == fn = f /\ pc = "done"

\* C1: on a tournament, is_reachable(G, s, t) returns true if and only if
\* G has a directed path from s to t (a node reaches itself).
C1_ReachableIffPath ==
    Returns("is_reachable") => (ret <=> HasPath(G, args.s, args.t))

\* C2: on a tournament, is_strongly_connected(G) returns true if and only
\* if every node has a directed path to every other node.
C2_StronglyConnectedIffAllPaths ==
    Returns("is_strongly_connected") =>
        (ret <=> \A u \in NodeSet(G) : \A v \in NodeSet(G) : HasPath(G, u, v))

\* C3: the score map betweenness_centrality returns, obtained by chunking
\* the sources, accumulating one partial map per chunk and summing the
\* partial maps, equals the map a single accumulation over all the sources
\* gives, for every worker count and every order in which the tasks finish.
C3_ChunkedSumEqualsSingleAccumulation ==
    Returns("betweenness_centrality") =>
        ret = _rescale(_betweenness_centrality_node_subset(G, nodes, args.endpoints),
                       G.n, args.normalized, G.directed, args.k, args.endpoints)

\* some node got a non-zero contribution from two different chunks
C3_Witness ==
    /\ Returns("betweenness_centrality")
    /\ \E i \in Tasks : \E j \in Tasks : \E v \in NodeSet(G) :
          i # j /\ out[i][v][1] > 0 /\ out[j][v][1] > 0

\* the sequence being chunked in the current batch
ChunkSource == IF pc = "closure" THEN Flatten(neighborhoods) ELSE G.order

\* C4: the chunks of a batch, of size C = max(N // w, 1), concatenate back
\* to exactly the sequence chunked; every chunk has C items except possibly
\* the last, which is not empty; for the node sequence and for the lazily
\* generated neighborhoods alike.
C4_ChunksPartitionTheSource ==
    pc \in {"nbrs", "closure", "targets"} =>
        LET C == Max(Len(ChunkSource) \div cpu_count, 1)
            m == Len(node_chunks)
        IN  /\ Flatten(node_chunks) = ChunkSource
            /\ \A i \in 1 .. m :
                  /\ 1 <= Len(node_chunks[i])
                  /\ Len(node_chunks[i]) <= C
                  /\ i < m => Len(node_chunks[i]) = C

\* the lazily generated neighborhoods, chunked with a shorter last chunk
C4_Witness ==
    /\ pc = "closure"
    /\ Len(node_chunks) >= 3
    /\ Len(node_chunks[1]) >= 2
    /\ Len(node_chunks[Len(node_chunks)]) < Len(node_chunks[1])

\* C5: once a chunk task of a batch has failed, the call only ever ends in
\* failure: it returns nothing, and no later batch or reduction is started
\* from the results of the tasks that succeeded.
C5_FailedTaskFailsTheCall ==
    [][SomeFailed => /\ pc' \in {pc, "failed"}
                     /\ ret' = ret
                     /\ neighborhoods' = neighborhoods
                     /\ node_chunks' = node_chunks]_vars

\* a call that failed although some of its tasks had succeeded
C5_Witness ==
    /\ pc = "failed"
    /\ exc = "TaskError"
    /\ \E i \in Tasks : status[i] = "done"
    /\ \E i \in Tasks : status[i] = "failed"

\* C6: whatever the order in which tasks start and finish, the result list
\* holds the result of the i-th submitted chunk at position i, and holds
\* exactly one entry per chunk once every task is done.
C6_ResultsInSubmissionOrder ==
    pc \in Batches =>
        /\ \A i \in Tasks :
              status[i] = "done" => i \in DOMAIN out /\ out[i] = TaskResult(i)
        /\ AllDone => /\ Len(Returned) = Len(node_chunks)
                      /\ \A i \in Tasks : Returned[i] = out[i]

\* a later chunk finished before an earlier one, with a different result
C6_Witness ==
    /\ pc \in Batches
    /\ \E i \in Tasks : \E j \in Tasks :
          /\ i < j
          /\ status[i] = "running"
          /\ status[j] = "done"
          /\ out[j] # TaskResult(i)

\* the blocking test over the set of nodes, free of chunks and orders
NoNeighborhoodBlocks(g, s, t) ==
    \A v \in NodeSet(g) : ~Blocks(g, s, t, two_nbrhood(g, v))

\* C7: the values is_reachable and is_strongly_connected return are the
\* same for every worker count and every node iteration order: they are
\* determined by the graph and s, t alone.
C7_IndependentOfWorkersAndOrder ==
    /\ Returns("is_reachable") =>
          (ret <=> NoNeighborhoodBlocks(G, args.s, args.t))
    /\ Returns("is_strongly_connected") =>
          (ret <=> \A u \in NodeSet(G) : \A v \in NodeSet(G) :
                      NoNeighborhoodBlocks(G, u, v))

\* a negative answer computed on several workers in a non-ascending order
C7_Witness ==
    /\ Returns("is_reachable")
    /\ cpu_count > 1
    /\ G.n >= 3
    /\ G.order[1] # 1
    /\ ~ret

InUnitInterval(x) == QLeq(Int2Q(0), x) /\ QLeq(x, Int2Q(1))

NormalizedNoEndpoints ==
    Returns("betweenness_centrality") /\ args.normalized /\ ~args.endpoints

\* C8 as stated: on an undirected graph, with normalized = true and
\* endpoints = false, every score lies in [0, 1], for every sample size k.
C8_ScoresInUnitInterval ==
    NormalizedNoEndpoints => \A v \in NodeSet(G) : InUnitInterval(ret[v])

\* C8, amended: every score lies in [0, 1] when every node is a source
\* (k is none or k = n), and in [0, n/(n-1)] when 1 <= k < n.
C8_ScoresInUnitIntervalUnsampled ==
    NormalizedNoEndpoints =>
        \A v \in NodeSet(G) :
            IF args.k = None \/ args.k = G.n
            THEN InUnitInterval(ret[v])
            ELSE QLeq(Int2Q(0), ret[v]) /\ QLeq(ret[v], Frac(G.n, G.n - 1))

\* an unsampled call in which a node reaches the score 1
C8_Witness ==
    /\ NormalizedNoEndpoints
    /\ args.k = None
    /\ \E v \in NodeSet(G) : ret[v] = Int2Q(1)

Ended == pc \in {"done", "failed"}

SameOutcome == prev.pc = pc /\ prev.exc = exc /\ prev.ret = ret

C10_SeededSampleRepeats ==
    (/\ calls = 2
     /\ Ended
     /\ fn = "betweenness_centrality"
     /\ args.k # None
     /\ args.seed # None)
        => /\ SameOutcome
           /\ nodes = prev.nodes
           /\ pc = "done" => /\ Len(nodes) = args.k
                             /\ Cardinality(Range(nodes)) = args.k

\* a repeated seeded call on another worker count, with several sources
C10_Witness ==
    /\ calls = 2
    /\ Returns("betweenness_centrality")
    /\ args.seed # None
    /\ args.k >= 2
    /\ cpu_count # prev.cpu_count
    /\ \E v \in NodeSet(G) : ret[v][1] > 0

KAboveNodes ==
    fn = "betweenness_centrality" /\ args.k # None /\ args.k > G.n

\* C11: when k is greater than the number of nodes, betweenness_centrality
\* ends in an error at its first step, before any chunk task is dispatched:
\* no chunk, no task, no source sequence and no score map ever exists, and
\* k is not clamped.
C11_KAboveNodesFailsBeforeDispatch ==
    /\ [](KAboveNodes => /\ pc \in {"call", "failed"}
                         /\ pc = "failed" => exc = "ValueError"
                         /\ node_chunks = <<>>
                         /\ status = <<>>
                         /\ out = <<>>
                         /\ nodes = <<>>
                         /\ ret = <<>>)
    /\ [][KAboveNodes /\ pc = "call" => pc' = "failed"]_vars

\* a seeded call with k above the node count of a graph with nodes, failed
C11_Witness ==
    /\ KAboveNodes
    /\ pc = "failed"
    /\ exc = "ValueError"
    /\ G.n >= 2
    /\ args.seed # None

NoEdgeEnters(g, S) == ~ \E e \in g.edges : e[1] \notin S /\ e[2] \in S

NoEdgeLeaves(g, S) == ~ \E e \in g.edges : e[1] \in S /\ e[2] \notin S

\* C12 as stated: is_closed accepts a node set S exactly when no edge of G
\* points from a node outside S to a node inside S.
C12_ClosedIffNoEdgeEnters ==
    pc = "closure" =>
        \A S \in SUBSET NodeSet(G) : is_closed(G, S) <=> NoEdgeEnters(G, S)

\* C12, amended: on a tournament, is_closed accepts S exactly when every
\* node outside S has an edge to every node of S, that is, when no edge
\* points from a node inside S to a node outside S.
C12_ClosedIffNoEdgeLeaves ==
    pc = "closure" =>
        \A S \in SUBSET NodeSet(G) : is_closed(G, S) <=> NoEdgeLeaves(G, S)

\* a finished closure task that met a blocking set, which is_closed
\* accepted although an edge enters it, on a graph with a set it rejects
C12_Witness ==
    /\ pc = "closure"
    /\ \E i \in Tasks :
          /\ status[i] = "done"
          /\ \E j \in 1 .. Len(node_chunks[i]) :
                LET S == node_chunks[i][j]
                IN  /\ args.s \in S
                    /\ args.t \notin S
                    /\ is_closed(G, S)
                    /\ ~NoEdgeEnters(G, S)
          /\ ~out[i]
    /\ \E S \in SUBSET NodeSet(G) : ~is_closed(G, S)

\* the places of the chunks of the current batch that hold the item v
PlacesOf(v) ==
    { p \in Tasks \X (1 .. G.n) :
        p[2] <= Len(node_chunks[p[1]]) /\ node_chunks[p[1]][p[2]] = v }

\* C13: is_strongly_connected(G) equals the conjunction of
\* is_reachable(G, u, v) over all ordered pairs (u, v) of nodes, u = v
\* included; every target node is in exactly one chunk; the result is true
\* for the graph with no nodes.
C13_StronglyConnectedIsAllPairsReachable ==
    fn = "is_strongly_connected" =>
        /\ pc \in {"targets", "done"} =>
              \A v \in NodeSet(G) : Cardinality(PlacesOf(v)) = 1
        /\ pc = "done" =>
              /\ ret <=> \A u \in NodeSet(G) : \A v \in NodeSet(G) :
                            is_reachable_value(G, u, v, cpu_count)
              /\ G.n = 0 => ret

\* a negative answer from several chunks of targets
C13_Witness ==
    /\ Returns("is_strongly_connected")
    /\ ~ret
    /\ G.n >= 3
    /\ Len(node_chunks) >= 2
    /\ \E i \in Tasks : out[i]

\* the neighborhoods of the nodes of G, in iteration order
NeighborhoodPerNode == [i \in 1 .. G.n |-> two_nbrhood(G, G.order[i])]

\* C14: within an is_reachable call the closure batch is dispatched, all
\* its tasks pending, only when every neighborhood task is done; the
\* result is produced only when every closure task is done; and the
\* closure batch holds exactly one neighborhood per node of G.
C14_TwoPhasesWithBarrier ==
    /\ [][(pc' = "closure" /\ pc # "closure") =>
            /\ pc = "nbrs"
            /\ \A i \in Tasks : status[i] = "done"
            /\ \A i \in DOMAIN status' : status'[i] = "pending"]_vars
    /\ [][(fn = "is_reachable" /\ pc' = "done" /\ pc # "done") =>
            /\ pc = "closure"
            /\ \A i \in Tasks : status[i] = "done"]_vars
    /\ []((fn = "is_reachable" /\ pc \in {"closure", "done"}) =>
            Flatten(node_chunks) = NeighborhoodPerNode)

\* a call that returned after two batches of several tasks each
C14_Witness ==
    /\ Returns("is_reachable")
    /\ Len(neighborhoods) >= 2
    /\ Len(node_chunks) >= 2
    /\ G.n >= 3

\* C15: in a betweenness_centrality call that dispatches at least one
\* chunk, every partial score map a task returns and the final map have
\* exactly the node set of G as their keys, whatever k and the worker
\* count: sampling only changes which nodes are sources.
C15_EveryMapCoversAllNodes ==
    (fn = "betweenness_centrality" /\ Len(node_chunks) >= 1) =>
        /\ \A i \in DOMAIN out : DOMAIN out[i] = NodeSet(G)
        /\ pc = "done" => DOMAIN ret = NodeSet(G)

\* a sampled call over several chunks that gave a node outside the sample
\* a non-zero score
C15_Witness ==
    /\ Returns("betweenness_centrality")
    /\ args.k # None
    /\ args.k < G.n
    /\ Len(node_chunks) >= 2
    /\ \E v \in NodeSet(G) \ Range(nodes) : ret[v][1] > 0

\* C16: when is_reachable(G, s, t) returns false on a tournament, G has no
\* directed path from s to t.
C16_FalseMeansNoPath ==
    (Returns("is_reachable") /\ ~ret) => ~HasPath(G, args.s, args.t)

\* a negative answer for a source that has out-neighbors, on the largest
\* tournaments
C16_Witness ==
    /\ Returns("is_reachable")
    /\ ~ret
    /\ G.n = MaxNodes
    /\ G_adj(G, args.s) # {}

\* C17: in a tournament the two-hop neighborhood computed for a node v
\* never contains v; a node without out-neighbors gets the empty set.
C17_NeighborhoodExcludesItsNode ==
    (fn = "is_reachable" /\ pc \in {"closure", "done"}) =>
        LET nbhs == Flatten(neighborhoods)
        IN  /\ Len(nbhs) = G.n
            /\ \A i \in 1 .. G.n :
                  /\ G.order[i] \notin nbhs[i]
                  /\ G_adj(G, G.order[i]) = {} => nbhs[i] = {}

\* a node without out-neighbors whose own neighborhood is empty while the
\* neighborhood of another node contains it
C17_Witness ==
    /\ fn = "is_reachable"
    /\ pc = "closure"
    /\ G.n >= 3
    /\ \E i \in 1 .. G.n : \E j \in 1 .. G.n :
          /\ i # j
          /\ G_adj(G, G.order[i]) = {}
          /\ Flatten(neighborhoods)[i] = {}
          /\ G.order[i] \in Flatten(neighborhoods)[j]

\* betweenness_centrality got past the sampling of its sources
Sampled ==
    /\ fn = "betweenness_centrality"
    /\ pc \in {"sources", "done"} \/ (pc = "failed" /\ exc # "ValueError")

\* C18: betweenness_centrality dispatches at least one chunk exactly when
\* the source sequence is not empty; with an empty source sequence (no
\* nodes, or k = 0) no chunk is dispatched and the call ends in an error
\* at the reduction instead of returning a score map.
C18_EmptySourcesFailAtReduction ==
    /\ [](Sampled => /\ Len(node_chunks) >= 1 <=> nodes # <<>>
                     /\ nodes = <<>> <=> (G.n = 0 \/ args.k = 0)
                     /\ pc = "done" => nodes # <<>>
                     /\ (pc = "failed" /\ exc = "IndexError") =>
                           nodes = <<>> /\ ret = <<>>)
    /\ [][(Sampled /\ pc = "sources" /\ nodes = <<>>) =>
            pc' = "failed" /\ exc' = "IndexError"]_vars

\* a call with k = 0 on a graph with nodes, failed at the reduction
C18_Witness ==
    /\ fn = "betweenness_centrality"
    /\ pc = "failed"
    /\ exc = "IndexError"
    /\ G.n >= 2
    /\ args.k = 0
    /\ node_chunks = <<>>

\* C19: N >= 1 items chunked for w >= 1 workers with chunk size
\* max(N // w, 1) give N tasks when N < w, exactly w tasks if and only if
\* w divides N, more than w tasks when N > w and w does not divide N, and
\* never more than 2w - 1 tasks.
C19_NumberOfChunkTasks ==
    (pc \in {"nbrs", "closure", "targets"} /\ Len(ChunkSource) >= 1) =>
        LET N == Len(ChunkSource)
            w == cpu_count
            m == Len(node_chunks)
        IN  /\ N < w => m = N
            /\ m = w <=> N % w = 0
            /\ (N > w /\ N % w # 0) => m > w
            /\ m <= 2 * w - 1

\* the most tasks three or more workers can get: 2w - 1 chunks of one item
C19_Witness ==
    /\ pc \in {"nbrs", "closure", "targets"}
    /\ cpu_count >= 3
    /\ Len(node_chunks) = 2 * cpu_count - 1

=============================================================================
